---- MODULE Spec2Model ----
(***************************************************************************)
(* Workspace synchronisation of reggie-build: the typer command of         *)
(* workspace_sync.py (implementation "W", over pyproject.PyProjectTree)    *)
(* and the command group of sync.py (implementation "S", over              *)
(* projects.Project), as state machines over the manifests on disk.        *)
(*                                                                         *)
(* Strings that the code parses or formats (dependency strings, paths,     *)
(* versions) are sequences of lexical tokens, so that formatting and       *)
(* parsing are computed and not assumed.                                   *)
(***************************************************************************)
EXTENDS Naturals, Integers, Sequences, FiniteSets, TLC

VARIABLES
    impl,      \* "W": workspace_sync.sync; "Scli": sync.py through the CLI
               \* callbacks; "Sapi": sync.sync(sync_projects, persist=True)
    topo,      \* the workspace layout: directory of every project, scripts dir
    env,       \* collaborators: git and ruff available, working tree dirty
    req,       \* the requested targets: [kind, ids]
    flags,     \* the operations the invocation enables
    disk,      \* [project -> manifest file]: parsed content, canonical text?, parseable?
    pc,        \* position of the run
    runNo,     \* number of the current invocation
    opIdx,     \* index of the next operation of the run
    tg,        \* resolved target projects of the run, in order
    mem,       \* [project -> document] the document instances the operations mutate
    loaded,    \* projects whose document instance is loaded
    todo,      \* projects still to persist
    writes,    \* manifest files written by this run, in order
    snap,      \* the disk as it was when the run started
    log,       \* signals emitted by this run (warnings, change records)
    call,      \* a library function called on its own: [fn, arg, ...]
    ret        \* what its successive calls returned, in order

vars == <<impl, topo, env, req, flags, disk, pc, runNo, opIdx, tg, mem, loaded,
          todo, writes, snap, log, call, ret>>

(***************************************************************************)
(* Bounds                                                                  *)
(***************************************************************************)
MaxRuns == 2
MaxDeps == 2
MaxDepth == 2
MaxLen == 5
MaxCalls == 2

(***************************************************************************)
(* Topology                                                                *)
(***************************************************************************)
Root == "root"
MemberSeq == <<"a", "b">>
MemberSet == {"a", "b"}
Projects == {Root} \cup MemberSet
Unknown == "zz"

Min(a, b) == IF a <= b THEN a ELSE b

\* Both directories hold a/b directly under the root, named as the project.
TopoFlat == [dir |-> [p \in Projects |->
                        IF p = Root THEN <<"w">> ELSE <<"w", p>>],
             scripts |-> <<"site">>]
\* b lives in a directory that is not named after the project, and it is the
\* project that holds the tool itself.
TopoRenamed == [dir |-> [p \in Projects |->
                        IF p = Root THEN <<"w">>
                        ELSE IF p = "a" THEN <<"w", "a">> ELSE <<"w", "pkg_b">>],
                scripts |-> <<"w", "pkg_b">>]
\* Members at different depths (uv workspace globs such as libs/*).
TopoNested == [dir |-> [p \in Projects |->
                        IF p = Root THEN <<"w">>
                        ELSE IF p = "a" THEN <<"w", "libs", "a">> ELSE <<"w", "b">>],
               scripts |-> <<"site">>]

\* _update_projects reads proj.is_scripts: the project is the member whose
\* directory projects.scripts_dir() returns, the one that holds the tool.
IsScripts(t, p) == p \in MemberSet /\ t.dir[p] = t.scripts

(***************************************************************************)
(* Strings as token sequences                                              *)
(***************************************************************************)
\* tokens made only of characters of the class [\w\-\.\[\]]
NameToks == {"root", "a", "b", "zz", "ext", "w", "libs", "pkg_b", "..", ".", "1"}
WsToks == {" "}

\* index of the first token at or after i that is not in S (Len(s)+1 if none)
SkipToks(s, i, S) ==
    CHOOSE j \in i..(Len(s) + 1) :
        /\ \A k \in i..(j - 1) : s[k] \in S
        /\ (j = Len(s) + 1 \/ s[j] \notin S)

\* re.match(r"^\s*([\w\-\.\[\]]+)\s*@\s*file://", dep): group 1, or <<>> if no match
ReFileRef(dep) ==
    LET i0 == SkipToks(dep, 1, WsToks)
        j  == SkipToks(dep, i0, NameToks)
        k  == SkipToks(dep, j, WsToks)
    IN  IF j > i0 /\ k <= Len(dep) /\ dep[k] = "@"
        THEN LET l == SkipToks(dep, k + 1, WsToks)
             IN IF l <= Len(dep) /\ dep[l] = "file://"
                THEN SubSeq(dep, i0, j - 1) ELSE << >>
        ELSE << >>

\* sync.py member_project_dependencies.parse_dep_name
ParseDepName(dep) == IF ReFileRef(dep) # << >> THEN ReFileRef(dep) ELSE dep

\* workspace_sync._parse_dependency_name
ParseDependencyName(dep) == IF ReFileRef(dep) # << >> THEN ReFileRef(dep) ELSE dep

\* os.path.relpath(target, start) on resolved absolute directories
CommonLen(a, b) ==
    CHOOSE n \in 0..Min(Len(a), Len(b)) :
        /\ \A i \in 1..n : a[i] = b[i]
        /\ (n = Min(Len(a), Len(b)) \/ a[n + 1] # b[n + 1])

Relpath(target, start) ==
    LET n    == CommonLen(target, start)
        segs == [i \in 1..(Len(start) - n) |-> ".."]
                    \o SubSeq(target, n + 1, Len(target))
    IN  IF segs = << >> THEN <<".">> ELSE segs

\* str(path): the segments joined by "/"
JoinPath(segs) ==
    [i \in 1..(2 * Len(segs) - 1) |->
        IF i % 2 = 1 THEN segs[(i + 1) \div 2] ELSE "/"]

FileRefPrefix == <<" ", "@", " ", "file://", "${PROJECT_ROOT}", "/">>

\* variant of _member_dependency that leaves out the file:// scheme
MemberDependencyNoScheme(t, p, dep, depProj) ==
    dep \o <<" ", "@", " ">> \o JoinPath(Relpath(t.dir[depProj], t.dir[p]))

\* workspace_sync._member_dependency
MemberDependency(t, p, dep, depProj) ==
    dep \o FileRefPrefix \o JoinPath(Relpath(t.dir[depProj], t.dir[p]))

\* sync.py line 232: f"{dep} @ file://${{PROJECT_ROOT}}/../{dep}"
FileDep(dep) == dep \o FileRefPrefix \o <<"..", "/">> \o dep

(***************************************************************************)
(* Manifest documents                                                      *)
(*   project   the [project] table exists                                  *)
(*   version   project.version (NoVersion: no such key)                    *)
(*   deps      project.dependencies                                        *)
(*   bsHas/bs  the [build-system] table and its keys                       *)
(*   ruff      tool.ruff setting ("none": absent)                          *)
(*   mpHas/mp  the [tool.member-project] table: the part of a document it  *)
(*             holds (a project.version, a tool.ruff setting)              *)
(*   uvOther   tool.uv holds keys other than sources                       *)
(*   srcKind   tool.uv.sources is absent, a table ([tool.uv.sources]) or   *)
(*             an inline table (sources = {...})                           *)
(*   src       the entries of tool.uv.sources: name -> entry               *)
(***************************************************************************)
NoVersion == << >>
NoMp == [version |-> NoVersion, ruff |-> "none"]
NoProj == "none"

WsTrue == [workspace |-> TRUE]
WsFalse == [workspace |-> FALSE]
Pinned == [path |-> "p"]

IsWsTrue(e) == "workspace" \in DOMAIN e /\ e.workspace = TRUE

Range(s) == {s[i] : i \in DOMAIN s}

BaseDoc == [project |-> TRUE, version |-> <<"0">>, deps |-> << >>,
            bsHas |-> FALSE, bs |-> << >>, ruff |-> "none",
            mpHas |-> FALSE, mp |-> NoMp, uvOther |-> FALSE,
            srcKind |-> "absent", src |-> << >>]

\* a mapping read as a condition (`if data:`): the table exists and is not empty
BsData(doc) == doc.bsHas /\ DOMAIN doc.bs # {}
MpData(doc) == doc.mpHas /\ doc.mp # NoMp

(***************************************************************************)
(* utils.DEFAULT_VERSION, utils.git_version and workspace_sync._version    *)
(***************************************************************************)
DefaultVersion == <<"0.0.1">>
HeadArg(e) == IF e.dirty THEN "HEAD" ELSE "HEAD~1"
RevParse(arg) == IF arg = "HEAD" THEN "h1" ELSE "h0"

\* workspace_sync._version: f"0.0.1+g{rev}" (raises when git fails)
VersionW(e) == <<"0.0.1", "+g", RevParse(HeadArg(e))>>

\* utils.git_version() or utils.DEFAULT_VERSION
GitVersion(e) == IF e.git THEN DefaultVersion \o <<"+g", RevParse(HeadArg(e))>>
                 ELSE NoVersion
VersionS(e) == IF GitVersion(e) # NoVersion THEN GitVersion(e) ELSE DefaultVersion

(***************************************************************************)
(* workspace_sync.py: the operations on one document                       *)
(***************************************************************************)
\* sync_version, loop body
SetVersionW(doc, v) ==
    IF doc.project /\ doc.version # v THEN [doc EXCEPT !.version = v] ELSE doc

\* sync_build_system, loop body: member.data[key] = deepcopy(data)
SetBuildSystemW(doc, data) == [doc EXCEPT !.bsHas = TRUE, !.bs = data]

\* sync_member_project_tool, loop body: mergedeep.merge(member.data, data)
MergeToolW(doc, data) ==
    [doc EXCEPT !.project = IF data.version # NoVersion THEN TRUE ELSE @,
                !.version = IF data.version # NoVersion THEN data.version ELSE @,
                !.ruff    = IF data.ruff # "none" THEN data.ruff ELSE @]

\* the project a parsed dependency name denotes in the unfiltered tree
DepProjW(dep) ==
    IF dep = <<Root>> THEN Root
    ELSE IF Len(dep) = 1 /\ dep[1] \in MemberSet THEN dep[1]
    ELSE NoProj

\* variant of the rewrite that skips an entry naming the project itself
RewriteDepsWSkipSelf(t, p, deps) ==
    [i \in 1..Len(deps) |->
        LET dep == ParseDependencyName(deps[i])
        IN  IF DepProjW(dep) # NoProj /\ DepProjW(dep) # p
            THEN MemberDependency(t, p, dep, DepProjW(dep)) ELSE deps[i]]

\* variant of the rewrite that builds a new list of the member references only
RewriteDepsWOnlyMembers(t, p, deps) ==
    SelectSeq([i \in 1..Len(deps) |->
        LET dep == ParseDependencyName(deps[i])
        IN  IF DepProjW(dep) # NoProj
            THEN MemberDependency(t, p, dep, DepProjW(dep)) ELSE << >>],
        LAMBDA d : d # << >>)

\* _sync_member_project_dependencies, lines 213-225: the rewritten list
RewriteDepsW(t, p, deps) ==
    [i \in 1..Len(deps) |->
        LET dep == ParseDependencyName(deps[i])
        IN  IF DepProjW(dep) # NoProj
            THEN MemberDependency(t, p, dep, DepProjW(dep)) ELSE deps[i]]

\* ... and member_dependencies, the names rewritten
MemberDepsW(deps) ==
    {ParseDependencyName(deps[i])[1] :
        i \in {j \in 1..Len(deps) : DepProjW(ParseDependencyName(deps[j])) # NoProj}}

\* PyProject.table("tool", "uv", "sources", create): the node it returns is
\* attached to the document, detached from it, or None; and the document after
TableSources(doc, create) ==
    IF doc.srcKind = "table" THEN [node |-> "attached", doc |-> doc]
    ELSE IF ~create THEN [node |-> "none", doc |-> doc]
    ELSE IF doc.srcKind = "absent"
         THEN [node |-> "attached",
               doc |-> [doc EXCEPT !.srcKind = "table", !.src = << >>]]
         \* key in cur_table: the key is removed and the new table never added
         ELSE [node |-> "detached",
               doc |-> [doc EXCEPT !.srcKind = "absent", !.src = << >>]]

\* TableNode.prune on the sources node: an empty table is removed from its
\* parent (the parents' emptiness follows from uvOther, ruff, mpHas)
PruneSources(doc) ==
    IF doc.srcKind # "absent" /\ DOMAIN doc.src = {}
    THEN [doc EXCEPT !.srcKind = "absent"] ELSE doc

\* _sync_member_project_dependencies, lines 227-249
SyncSourcesW(doc, memberDeps) ==
    LET r == TableSources(doc, memberDeps # {})
    IN  IF r.node = "attached"
        THEN LET keep == {k \in DOMAIN r.doc.src :
                            ~(IsWsTrue(r.doc.src[k]) /\ k \notin memberDeps)}
                 upd  == [k \in keep \cup memberDeps |->
                            IF k \in memberDeps THEN WsTrue ELSE r.doc.src[k]]
             IN PruneSources([r.doc EXCEPT !.src = upd])
        ELSE r.doc

\* _sync_member_project_dependencies
SyncDepsW(t, p, doc) ==
    SyncSourcesW([doc EXCEPT !.deps = RewriteDepsW(t, p, doc.deps)],
                 MemberDepsW(doc.deps))

(***************************************************************************)
(* sync.py: the operations on one document (benedict merge: tables are     *)
(* merged key by key, other values replaced)                               *)
(***************************************************************************)
\* version._set
SetVersionS(doc, v) ==
    IF v # doc.version
    THEN [doc EXCEPT !.project = TRUE, !.version = v] ELSE doc

\* build_system._set: p.pyproject.merge({key: deepcopy(data)}, overwrite=True)
SetBuildSystemS(doc, data) ==
    [doc EXCEPT !.bsHas = TRUE,
                !.bs = [k \in DOMAIN doc.bs \cup DOMAIN data |->
                          IF k \in DOMAIN data THEN data[k] ELSE doc.bs[k]]]

\* member_project_tool._set: p.pyproject.merge(deepcopy(data), overwrite=True)
MergeToolS(doc, data) ==
    [doc EXCEPT !.project = IF data.version # NoVersion THEN TRUE ELSE @,
                !.version = IF data.version # NoVersion THEN data.version ELSE @,
                !.ruff    = IF data.ruff # "none" THEN data.ruff ELSE @]

\* member_project_names (line 203): the names of the members, never the root's
IsMemberNameS(dep) == Len(dep) = 1 /\ dep[1] \in MemberSet

\* member_project_dependencies._set, lines 224-233
RewriteDepsS(deps) ==
    [i \in 1..Len(deps) |->
        LET dep == ParseDepName(deps[i])
        IN  IF IsMemberNameS(dep) THEN FileDep(dep) ELSE deps[i]]

MemberDepsS(deps) ==
    {ParseDepName(deps[i])[1] :
        i \in {j \in 1..Len(deps) : IsMemberNameS(ParseDepName(deps[j]))}}

\* member_project_dependencies._set, lines 234-251
SyncSourcesS(doc, memberDeps) ==
    LET keep == {k \in DOMAIN doc.src :
                    ~(k \notin memberDeps /\ IsWsTrue(doc.src[k]))}
        \* merge of {dep: {"workspace": True}} into the entry that is there
        ent(k) == IF k \in keep
                  THEN [f \in DOMAIN doc.src[k] \cup {"workspace"} |->
                          IF f = "workspace" THEN TRUE ELSE doc.src[k][f]]
                  ELSE WsTrue
    IN  [doc EXCEPT
            !.srcKind = IF memberDeps # {} /\ @ = "absent" THEN "table" ELSE @,
            !.src = [k \in keep \cup memberDeps |->
                        IF k \in memberDeps THEN ent(k) ELSE doc.src[k]]]

SyncDepsS(doc) ==
    SyncSourcesS([doc EXCEPT !.deps = RewriteDepsS(doc.deps)],
                 MemberDepsS(doc.deps))

\* _persist_projects, lines 96-100: doc.clean(strings=False) drops empty tables
Clean(doc) ==
    [doc EXCEPT !.bsHas   = @ /\ DOMAIN doc.bs # {},
                !.mpHas   = @ /\ doc.mp # NoMp,
                !.srcKind = IF DOMAIN doc.src = {} THEN "absent" ELSE @]

(***************************************************************************)
(* One invocation                                                          *)
(***************************************************************************)
AllOps == {"version", "build", "tool", "deps", "ruff"}

\* variant: version assignment moved behind dependency rewriting
OpsWVersionLast == <<"build", "tool", "deps", "version", "ruff">>

\* workspace_sync.sync lines 89-98: the order of the enabled operations
OpsW == <<"version", "build", "tool", "deps", "ruff">>
\* sync.py app.registered_commands: the order the commands are declared in
OpsS == <<"build", "deps", "tool", "ruff", "version">>

RunOps == SelectSeq(IF impl = "W" THEN OpsW ELSE OpsS, LAMBDA o : o \in flags)
CurOp == IF pc = "ops" /\ opIdx <= Len(RunOps) THEN RunOps[opIdx] ELSE "none"

Names == IF req.kind = "none" THEN {} ELSE Range(req.ids)
Bad == {p \in Projects : ~disk[p].ok}

\* PyProjectTree.filter_members(names) (required defaults to False) and
\* PyProjectTree.projects: the root, then the members kept
FilterMembers(names) ==
    SelectSeq(MemberSeq, LAMBDA m : names = {} \/ m \in names)
ProjectsW(names) == <<Root>> \o FilterMembers(names)

\* sync._projects(None): every member, and the root when it has a [project]
DefaultProjects ==
    (IF disk[Root].doc.project THEN <<Root>> ELSE << >>) \o MemberSeq

\* sync._projects(projs): the identifiers that do not resolve
Unresolved(ids) == {ids[i] : i \in DOMAIN ids} \ Projects

\* the targets a project-skipping update visits (_update_projects)
UpdateProjects(includeScripts) ==
    {p \in Range(tg) : includeScripts \/ ~IsScripts(topo, p)}

\* the projects of seq that are reached before the first unparseable manifest
FirstBad(seq) ==
    IF \E i \in DOMAIN seq : seq[i] \in Bad
    THEN CHOOSE i \in DOMAIN seq :
            seq[i] \in Bad /\ \A j \in 1..(i - 1) : seq[j] \notin Bad
    ELSE Len(seq) + 1
Reached(seq) == {seq[i] : i \in 1..(FirstBad(seq) - 1)}
LoadFails(seq) == FirstBad(seq) <= Len(seq)

Fixed == UNCHANGED <<impl, topo, req, flags, call, ret>>

\* the command is entered: the targets are resolved
Start ==
    /\ pc = "idle"
    /\ Fixed /\ UNCHANGED <<env, disk, runNo, todo>>
    /\ snap' = disk
    /\ writes' = << >>
    /\ log' = {}
    /\ opIdx' = 1
    /\ mem' = [p \in Projects |-> disk[p].doc]
    /\ loaded' = {}
    /\ IF impl = "W"
       THEN /\ tg' = ProjectsW(Names)
            /\ pc' = "ops"
       ELSE IF req.kind = "none"
       THEN \* Project(...) parses every manifest it is constructed for
            IF Bad # {}
            THEN tg' = << >> /\ pc' = "failed_resolve"
            ELSE tg' = DefaultProjects /\ pc' = "ops"
       ELSE IF Unresolved(req.ids) # {} \/ Range(req.ids) \cap Bad # {}
            THEN tg' = << >> /\ pc' = "failed_resolve"
            ELSE tg' = req.ids /\ pc' = "ops"

OpDone == pc' = "ops" /\ opIdx' = opIdx + 1
OpFailed == pc' = "failed_op" /\ opIdx' = opIdx
OpFrame == Fixed /\ UNCHANGED <<env, disk, runNo, tg, todo, writes, snap>>

\* the documents after an update visited the projects ps
Apply(ps, new) == [p \in Projects |-> IF p \in ps THEN new[p] ELSE mem[p]]

\* variant of the change log that reports every project visited
ChangeRecordsAll(ps, new) ==
    {[sig |-> "version", proj |-> p, old |-> mem[p].version, new |-> new[p].version] :
        p \in ps}

\* sync_version lines 131-137 (LOG.debug), version._set line 342 (LOG.info)
ChangeRecords(ps, new) ==
    {[sig |-> "version", proj |-> p, old |-> mem[p].version, new |-> new[p].version] :
        p \in {q \in ps : new[q].version # mem[q].version}}

\* sync_version (workspace_sync.py) / version (sync.py)
OpVersion ==
    /\ CurOp = "version"
    /\ OpFrame
    /\ IF impl = "W"
       THEN LET ps == Reached(tg)
                needsGit == \E p \in ps : mem[p].project
                ok == env.git \/ ~needsGit
                new == IF env.git
                       THEN Apply(ps, [p \in Projects |-> SetVersionW(mem[p], VersionW(env))])
                       ELSE mem
            IN /\ mem' = new
               /\ loaded' = loaded \cup ps
               /\ log' = log \cup ChangeRecords(ps, new)
               /\ IF ok /\ ~LoadFails(tg) THEN OpDone ELSE OpFailed
       ELSE LET ps == UpdateProjects(FALSE)
                new == Apply(ps, [p \in Projects |-> SetVersionS(mem[p], VersionS(env))])
            IN /\ mem' = new
               /\ loaded' = loaded
               /\ log' = log \cup ChangeRecords(ps, new)
               /\ OpDone

\* sync_build_system (workspace_sync.py) / build_system (sync.py)
OpBuildSystem ==
    /\ CurOp = "build"
    /\ OpFrame
    /\ IF impl = "W"
       THEN IF Root \in Bad
            THEN mem' = mem /\ loaded' = loaded /\ log' = log /\ OpFailed
            ELSE IF ~BsData(mem[Root])
            THEN mem' = mem /\ loaded' = loaded \cup {Root} /\ log' = log /\ OpDone
            ELSE LET ms == FilterMembers(Names)
                     ps == Reached(ms)
                 IN /\ mem' = Apply(ps, [p \in Projects |-> SetBuildSystemW(mem[p], mem[Root].bs)])
                    /\ loaded' = loaded \cup {Root} \cup ps
                    /\ log' = log
                    /\ IF LoadFails(ms) THEN OpFailed ELSE OpDone
       ELSE /\ loaded' = loaded
            /\ OpDone
            /\ IF ~BsData(mem[Root])
               THEN mem' = mem /\ log' = log \cup {[sig |-> "warning", op |-> "build"]}
               ELSE /\ mem' = Apply(UpdateProjects(TRUE),
                                    [p \in Projects |-> SetBuildSystemS(mem[p], mem[Root].bs)])
                    /\ log' = log

\* sync_member_project_tool (workspace_sync.py) / member_project_tool (sync.py)
OpTool ==
    /\ CurOp = "tool"
    /\ OpFrame
    /\ log' = log
    /\ IF impl = "W"
       THEN IF Root \in Bad
            THEN mem' = mem /\ loaded' = loaded /\ OpFailed
            ELSE IF ~MpData(mem[Root])
            THEN mem' = mem /\ loaded' = loaded \cup {Root} /\ OpDone
            ELSE LET ms == FilterMembers(Names)
                     ps == Reached(ms)
                 IN /\ mem' = Apply(ps, [p \in Projects |-> MergeToolW(mem[p], mem[Root].mp)])
                    /\ loaded' = loaded \cup {Root} \cup ps
                    /\ IF LoadFails(ms) THEN OpFailed ELSE OpDone
       ELSE /\ loaded' = loaded
            /\ OpDone
            /\ IF MpData(mem[Root])
               THEN mem' = Apply(UpdateProjects(FALSE),
                                 [p \in Projects |-> MergeToolS(mem[p], mem[Root].mp)])
               ELSE mem' = mem

\* sync_member_project_dependencies / member_project_dependencies
OpDeps ==
    /\ CurOp = "deps"
    /\ OpFrame
    /\ log' = log
    /\ IF impl = "W"
       THEN LET ps == Reached(tg)
            IN /\ mem' = Apply(ps, [p \in Projects |-> SyncDepsW(topo, p, mem[p])])
               /\ loaded' = loaded \cup ps
               /\ IF LoadFails(tg) THEN OpFailed ELSE OpDone
       ELSE /\ loaded' = loaded
            \* line 203 constructs a Project for every member
            /\ IF Bad \cap MemberSet # {}
               THEN mem' = mem /\ OpFailed
               ELSE /\ mem' = Apply(UpdateProjects(FALSE), [p \in Projects |-> SyncDepsS(mem[p])])
                    /\ OpDone

\* ruff_format (workspace_sync.py) / ruff (sync.py): python files only
OpRuff ==
    /\ CurOp = "ruff"
    /\ OpFrame
    /\ UNCHANGED <<mem, loaded, log>>
    /\ IF env.ruff \/ (impl # "W" /\ tg = << >>) THEN OpDone ELSE OpFailed

(***************************************************************************)
(* Persistence                                                             *)
(***************************************************************************)
\* sync.sync line 159 hands _persist_projects the identifiers it was given:
\* _projects resolves them again, to new Project instances read from disk
\* (projects.root() alone is cached)
Fresh(p) ==
    /\ impl = "Sapi"
    /\ \/ req.kind = "ids"
       \/ req.kind = "none" /\ p # Root

\* the operations are over: workspace_sync.sync line 99, _sync_result_callback,
\* sync.sync line 158
EndOps ==
    /\ pc = "ops" /\ opIdx > Len(RunOps)
    /\ Fixed /\ UNCHANGED <<env, disk, runNo, opIdx, tg, mem, loaded, writes, snap, log>>
    /\ todo' = tg
    /\ pc' = "persist"

FileOf(doc) == [doc |-> doc, norm |-> TRUE, ok |-> TRUE]

Write(p, doc) ==
    /\ disk' = [disk EXCEPT ![p] = FileOf(doc)]
    /\ writes' = Append(writes, p)
    /\ env' = [env EXCEPT !.dirty = TRUE]

NoWrite == UNCHANGED <<disk, writes, env>>

\* PyProject.persist(force_format=True) of pyproject.py
PersistW(p) ==
    IF p \in loaded
    THEN /\ loaded' = loaded \ {p}
         /\ mem' = mem
         /\ pc' = pc
         /\ IF mem[p] # disk[p].doc \/ ~disk[p].norm
            THEN Write(p, mem[p]) ELSE NoWrite
    ELSE /\ UNCHANGED <<loaded, mem>>
         /\ IF ~disk[p].ok
            THEN pc' = "failed_persist" /\ NoWrite
            ELSE /\ pc' = pc
                 /\ IF ~disk[p].norm THEN Write(p, disk[p].doc) ELSE NoWrite

\* variant of _persist_projects that writes without comparing the text
PersistSAlways(p) ==
    LET doc == Clean(IF Fresh(p) THEN disk[p].doc ELSE mem[p])
    IN  /\ loaded' = loaded
        /\ pc' = pc
        /\ mem' = IF Fresh(p) THEN mem ELSE [mem EXCEPT ![p] = doc]
        /\ Write(p, doc)

\* _persist_projects of sync.py, loop body
PersistS(p) ==
    LET doc == Clean(IF Fresh(p) THEN disk[p].doc ELSE mem[p])
    IN  /\ loaded' = loaded
        /\ pc' = pc
        /\ mem' = IF Fresh(p) THEN mem ELSE [mem EXCEPT ![p] = doc]
        /\ IF doc # disk[p].doc \/ ~disk[p].norm
           THEN Write(p, doc) ELSE NoWrite

Persist ==
    /\ pc = "persist" /\ todo # << >>
    /\ Fixed /\ UNCHANGED <<runNo, opIdx, tg, snap, log>>
    /\ todo' = Tail(todo)
    /\ IF impl = "W" THEN PersistW(Head(todo)) ELSE PersistS(Head(todo))

Finish ==
    /\ pc = "persist" /\ todo = << >>
    /\ pc' = "done"
    /\ Fixed /\ UNCHANGED <<env, disk, runNo, opIdx, tg, mem, loaded, todo, writes, snap, log>>

Ended == pc \in {"done", "failed_resolve", "failed_op", "failed_persist"}

\* the same command is invoked again
NextRun ==
    /\ Ended /\ runNo < MaxRuns
    /\ runNo' = runNo + 1
    /\ pc' = "idle"
    /\ Fixed /\ UNCHANGED <<env, disk, opIdx, tg, mem, loaded, todo, writes, snap, log>>

(***************************************************************************)
(* Initial states                                                          *)
(***************************************************************************)
Envs == {[git |-> TRUE,  ruff |-> TRUE,  dirty |-> FALSE],
         [git |-> TRUE,  ruff |-> TRUE,  dirty |-> TRUE],
         [git |-> FALSE, ruff |-> TRUE,  dirty |-> TRUE],
         [git |-> TRUE,  ruff |-> FALSE, dirty |-> FALSE]}

ReqNone == [kind |-> "none", ids |-> << >>]
ReqIds(ids) == [kind |-> "ids", ids |-> ids]
ReqObjs(ids) == [kind |-> "objs", ids |-> ids]

Invocations ==
    {[impl |-> "W", req |-> r, flags |-> f, topo |-> t] :
        r \in {ReqNone, ReqIds(<<"a">>), ReqIds(<<"a", Unknown>>)},
        f \in {AllOps, {"build"}},
        t \in {TopoFlat, TopoNested}}
    \cup
    {[impl |-> "Scli", req |-> r, flags |-> AllOps, topo |-> t] :
        r \in {ReqNone, ReqIds(<<"a", "a">>), ReqIds(<<"a", Unknown>>)},
        t \in {TopoFlat, TopoRenamed}}
    \cup
    {[impl |-> "Sapi", req |-> r, flags |-> AllOps, topo |-> t] :
        r \in {ReqNone, ReqIds(<<"a">>), ReqObjs(<<"a">>)},
        t \in {TopoFlat, TopoRenamed}}

V0 == <<"0.0.1", "+g", "h0">>

RootDocs ==
    {[BaseDoc EXCEPT !.project = pr,
                     !.version = IF pr THEN <<"0">> ELSE NoVersion,
                     !.uvOther = TRUE,
                     !.bsHas = (bs # << >>), !.bs = bs,
                     !.mpHas = (mp # NoMp), !.mp = mp] :
        pr \in BOOLEAN,
        bs \in {<< >>, [requires |-> "hatch"]},
        mp \in {NoMp, [version |-> NoVersion, ruff |-> "r1"],
                      [version |-> <<"9">>, ruff |-> "none"]}}

DocA1 == [BaseDoc EXCEPT !.deps = << <<"b">> >>,
                         !.bsHas = TRUE,
                         !.bs = [requires |-> "old", backend |-> "x"]]
DocA2 == [BaseDoc EXCEPT !.version = V0]

Good(doc) == FileOf(doc)

MemberFiles ==
    {[a |-> Good(DocA1), b |-> Good(BaseDoc)],
     [a |-> Good(DocA2), b |-> Good(BaseDoc)],
     [a |-> Good(DocA1), b |-> [Good(BaseDoc) EXCEPT !.ok = FALSE]],
     [a |-> [Good(DocA2) EXCEPT !.norm = FALSE], b |-> Good(BaseDoc)]}

NoCall == [fn |-> "none"]

Idle ==
    /\ call = NoCall /\ ret = << >>
    /\ pc = "idle" /\ runNo = 1 /\ opIdx = 1
    /\ tg = << >> /\ todo = << >> /\ writes = << >>
    /\ loaded = {} /\ log = {}
    /\ mem = [p \in Projects |-> disk[p].doc]
    /\ snap = disk

Init ==
    /\ \E i \in Invocations :
          impl = i.impl /\ req = i.req /\ flags = i.flags /\ topo = i.topo
    /\ env \in Envs
    /\ \E r \in RootDocs, m \in MemberFiles :
          disk = [p \in Projects |-> IF p = Root THEN Good(r) ELSE m[p]]
    /\ Idle

Next ==
    \/ Start
    \/ OpVersion
    \/ OpBuildSystem
    \/ OpTool
    \/ OpDeps
    \/ OpRuff
    \/ EndOps
    \/ Persist
    \/ Finish
    \/ NextRun

Spec == Init /\ [][Next]_vars

(***************************************************************************)
(* Claims about a whole run (specification Spec)                           *)
(***************************************************************************)
Unmutated == \A p \in Projects : mem[p] = snap[p].doc
NoDuplicates(s) == \A i, j \in DOMAIN s : s[i] = s[j] => i = j

\* C1: the second of two successive full syncs, same arguments, nothing else
\* touching the filesystem in between, writes no manifest file.
C1_SecondRunWritesNothing ==
    (runNo = 2 /\ pc # "idle" /\ flags = AllOps) => writes = << >>

\* C2: when a run has ended, the manifest on disk of every target is the
\* serialization of the document instance the operations mutated.
C2_ModificationsPersisted ==
    pc = "done" => \A p \in Range(tg) : disk[p].doc = mem[p]

\* C3: a requested identifier that does not resolve makes the run fail before
\* any document is mutated or written.
C3_UnresolvedFailsFast ==
    (req.kind = "ids" /\ Unresolved(req.ids) # {} /\ pc # "idle")
        => (pc = "failed_resolve" /\ Unmutated /\ writes = << >> /\ disk = snap)

\* C4: no manifest is written before every operation has finished on every
\* target, a run that an operation aborts has written nothing, and no manifest
\* is written twice in a run.
C4_WritesOnlyAtEndOnce ==
    /\ pc \in {"ops", "failed_op"} => (writes = << >> /\ disk = snap)
    /\ pc # "idle" => NoDuplicates(writes)

\* an operation failed after earlier operations had mutated documents
C4_Witness == pc = "failed_op" /\ ~Unmutated /\ opIdx > 1

(***************************************************************************)
(* Dependency rewriting alone: `sync --no-version --no-build-system        *)
(* --no-member-project-tool --no-format-python` of workspace_sync.py, the  *)
(* subcommand `sync member-project-dependencies` of sync.py                *)
(***************************************************************************)
RewrittenB == <<"b">> \o FileRefPrefix \o <<"..", "/", "b">>

DepStrs ==
    { <<"b">>,                        \* a member, by name
      <<"a">>,                        \* project a itself
      <<"root">>,                     \* the root project
      <<"ext">>,                      \* not a project of the workspace
      <<"b", ">=", "1">>,             \* a member's name with a version specifier
      RewrittenB,                     \* already a reference to a member
      <<" ", "b", "@", "file://", "x">> }   \* a file reference, other spacing

DepLists == UNION {[1..n -> DepStrs] : n \in 0..MaxDeps}

SourceTables ==
    {f \in UNION {[D -> {WsTrue, WsFalse, Pinned}] : D \in SUBSET {"b", "ext"}} :
        "ext" \in DOMAIN f => f["ext"] # WsFalse}

DepDocsA ==
    {[BaseDoc EXCEPT !.deps = d, !.srcKind = k, !.src = f] :
        d \in DepLists, f \in SourceTables, k \in {"absent", "table", "inline"}}

WellFormed(doc) == (doc.srcKind = "absent") <=> (DOMAIN doc.src = {})

DepRootDocs ==
    {[BaseDoc EXCEPT !.project = FALSE, !.version = NoVersion, !.uvOther = TRUE],
     [BaseDoc EXCEPT !.project = FALSE, !.version = NoVersion, !.uvOther = TRUE,
                     !.srcKind = "table", !.src = [a |-> WsTrue]],
     [BaseDoc EXCEPT !.uvOther = TRUE, !.deps = << <<"a">> >>]}

InitDeps ==
    /\ \E i \in {[impl |-> "W", topo |-> t] : t \in {TopoFlat, TopoNested, TopoRenamed}}
              \cup {[impl |-> "Scli", topo |-> t] : t \in {TopoFlat, TopoRenamed}} :
          impl = i.impl /\ topo = i.topo
    /\ req = ReqNone
    /\ flags = {"deps"}
    /\ env = [git |-> TRUE, ruff |-> TRUE, dirty |-> TRUE]
    /\ \E r \in DepRootDocs, a \in {d \in DepDocsA : WellFormed(d)} :
          disk = [p \in Projects |->
                    IF p = Root THEN Good(r)
                    ELSE IF p = "a" THEN Good(a) ELSE Good(BaseDoc)]
    /\ Idle

NextDeps ==
    \/ Start
    \/ OpDeps
    \/ EndOps
    \/ Persist
    \/ Finish

SpecDeps == InitDeps /\ [][NextDeps]_vars

(***************************************************************************)
(* Claims about dependency rewriting (specification SpecDeps)              *)
(***************************************************************************)
\* the dependency operation has just run
AfterDeps == pc = "ops" /\ opIdx > Len(RunOps) /\ flags = {"deps"}
\* the projects it visited
Visited == IF impl = "W" THEN Range(tg) ELSE UpdateProjects(FALSE)
Before(p) == snap[p].doc
After(p) == mem[p]
\* the name-extraction rule of the implementation that runs
Parsed(dep) == IF impl = "W" THEN ParseDependencyName(dep) ELSE ParseDepName(dep)
\* the rewrite of the implementation that runs, applied to a list of project p
Rewrite(p, deps) == IF impl = "W" THEN RewriteDepsW(topo, p, deps) ELSE RewriteDepsS(deps)
\* the names of workspace members / of workspace projects a list mentions
MembersFound(deps) == {n \in MemberSet : \E i \in DOMAIN deps : Parsed(deps[i]) = <<n>>}
ProjectsFound(deps) == {n \in Projects : \E i \in DOMAIN deps : Parsed(deps[i]) = <<n>>}
HasWsTrue(doc, n) == doc.srcKind # "absent" /\ n \in DOMAIN doc.src /\ IsWsTrue(doc.src[n])

\* C5: after dependency rewriting, a project's source-override table has a
\* workspace=true entry for every workspace member named in its dependency
\* list and no workspace=true entry for any other name.
C5_SourcesReconciled ==
    AfterDeps => \A p \in Visited :
        /\ \A n \in MembersFound(Before(p).deps) : HasWsTrue(After(p), n)
        /\ \A n \in DOMAIN After(p).src :
              HasWsTrue(After(p), n) => n \in ProjectsFound(Before(p).deps)

\* C6: dependency rewriting leaves every source-override entry whose
\* workspace key is absent or false exactly as it was.
C6_OtherSourcesUntouched ==
    AfterDeps => \A p \in Visited : \A k \in DOMAIN Before(p).src :
        ~IsWsTrue(Before(p).src[k])
            => /\ After(p).srcKind # "absent"
               /\ k \in DOMAIN After(p).src
               /\ After(p).src[k] = Before(p).src[k]

\* C7: the string written for a dependency on workspace member B parses back
\* to the name B, and rewriting the rewritten list again changes nothing.
C7_RewriteParsesBack ==
    AfterDeps => \A p \in Visited :
        /\ \A i \in DOMAIN Before(p).deps :
              LET n == Parsed(Before(p).deps[i])
              IN  (Len(n) = 1 /\ n[1] \in MemberSet)
                      => /\ Parsed(After(p).deps[i]) = n
                         /\ ReFileRef(After(p).deps[i]) = n
        /\ Rewrite(p, After(p).deps) = After(p).deps

\* a visited project other than b depended on member b by bare name, and the
\* entry was rewritten
C7_Witness ==
    /\ AfterDeps
    /\ \E p \in Visited \ {"b"} : \E i \in DOMAIN Before(p).deps :
          /\ Before(p).deps[i] = <<"b">>
          /\ After(p).deps[i] # <<"b">>

\* C8: the reference written for a member dependency is
\* `<name> @ file://${PROJECT_ROOT}/<rel>` with <rel> the relative path from
\* the depending project's directory to the dependency's directory.
C8_RelativeToDepender ==
    AfterDeps => \A p \in Visited : \A i \in DOMAIN Before(p).deps :
        LET n == Parsed(Before(p).deps[i])
        IN  (Len(n) = 1 /\ n[1] \in MemberSet)
                => After(p).deps[i] =
                     n \o FileRefPrefix \o JoinPath(Relpath(topo.dir[n[1]], topo.dir[p]))

\* C9: entries whose parsed name is not a workspace project are unchanged,
\* and the list keeps its length and the order of its entries.
C9_OthersUnchangedOrderKept ==
    AfterDeps => \A p \in Projects :
        /\ Len(After(p).deps) = Len(Before(p).deps)
        /\ \A i \in DOMAIN Before(p).deps :
              /\ Parsed(After(p).deps[i]) = Parsed(Before(p).deps[i])
              /\ Parsed(Before(p).deps[i]) \notin {<<n>> : n \in Projects}
                    => After(p).deps[i] = Before(p).deps[i]

\* a list with an entry that was rewritten and, after it, an entry that is
\* not a workspace project
C9_Witness ==
    /\ AfterDeps
    /\ \E p \in Visited : \E i, j \in DOMAIN Before(p).deps :
          /\ i < j
          /\ After(p).deps[i] # Before(p).deps[i]
          /\ Parsed(Before(p).deps[j]) \notin {<<n>> : n \in Projects}

IsSelfDep(p, dep) == p \in MemberSet /\ Parsed(dep) = <<p>>

IsFileRefOf(dep, n) ==
    Len(dep) > Len(n) + Len(FileRefPrefix)
        /\ SubSeq(dep, 1, Len(n) + Len(FileRefPrefix)) = n \o FileRefPrefix

JustRan(op) == pc = "ops" /\ opIdx > 1 /\ RunOps[opIdx - 1] = op
\* the member projects among the targets of the run
TargetMembers ==
    IF impl = "W" THEN Range(FilterMembers(Names)) ELSE Range(tg) \cap MemberSet

\* C11: after build-configuration propagation with a non-empty root
\* build-system section, the build-system section of every target member
\* equals the root's: keys only the member's old section had are gone.
C11_BuildSystemEqualsRoot ==
    (JustRan("build") /\ BsData(mem[Root]))
        => \A p \in TargetMembers : mem[p].bsHas /\ mem[p].bs = mem[Root].bs

Warned(op) == [sig |-> "warning", op |-> op] \in log

\* C12: when the root has no build-system section, or an empty one,
\* build-configuration propagation modifies no document, emits a warning
\* instead of failing, and a following persist writes no file.
C12_EmptyBuildSystemWarns ==
    ~BsData(snap[Root].doc) =>
        /\ (JustRan("build") /\ opIdx = 2) => Unmutated
        /\ JustRan("build") => Warned("build")
        /\ pc = "failed_op" => RunOps[opIdx] # "build"
        /\ (pc \in {"persist", "done"} /\ flags = {"build"}) => writes = << >>

\* C13: shared-tool-configuration propagation never changes the root's own
\* document, whatever the targets are.
C13_ToolNeverTargetsRoot ==
    [][CurOp = "tool" => mem'[Root] = mem[Root]]_vars

\* the projects version assignment sets a version on, and the version it computes
VersionTargets ==
    IF impl = "W" THEN {p \in Range(tg) : mem[p].project} ELSE UpdateProjects(FALSE)
Computed == IF impl = "W" THEN VersionW(env) ELSE VersionS(env)

C15_DefaultTargets ==
    (req.kind = "none" /\ pc # "idle") =>
        \A p \in Projects :
            (mem[p] # snap[p].doc \/ p \in Range(writes))
                => (p \in MemberSet \/ (p = Root /\ snap[Root].doc.project))

Pos(seq, o) == CHOOSE i \in DOMAIN seq : seq[i] = o
Propagations == {"build", "tool", "deps", "version"}

Parked ==
    /\ impl = "W" /\ topo = TopoFlat /\ req = ReqNone /\ flags = {}
    /\ env = [git |-> TRUE, ruff |-> TRUE, dirty |-> TRUE]
    /\ disk = [p \in Projects |-> Good(BaseDoc)]
    /\ pc = "lib" /\ runNo = 1 /\ opIdx = 1
    /\ tg = << >> /\ todo = << >> /\ writes = << >>
    /\ loaded = {} /\ log = {}
    /\ mem = [p \in Projects |-> disk[p].doc]
    /\ snap = disk

LibFrame ==
    UNCHANGED <<impl, topo, env, req, flags, disk, pc, runNo, opIdx, tg, mem,
                loaded, todo, writes, snap, log>>

(***************************************************************************)
(* utils.mapping_prune. A value is tagged: a scalar, None, a mapping       *)
(* (field f: key -> value) or a list (field a: sequence of values).        *)
(***************************************************************************)
Scalar == [t |-> "str", f |-> << >>, a |-> << >>]
None == [t |-> "none", f |-> << >>, a |-> << >>]
Tab(f) == [t |-> "tab", f |-> f, a |-> << >>]
Arr(q) == [t |-> "arr", f |-> << >>, a |-> q]
Removed == [t |-> "removed", f |-> << >>, a |-> << >>]

Leaves == {Scalar, None, Tab(<< >>), Arr(<< >>)}

\* the values of nesting depth at most d: key k1 and the first list element
\* hold any value one level down, key k2 and the second element a leaf
RECURSIVE Vals(_)
Vals(d) ==
    IF d = 0 THEN Leaves
    ELSE LET V == Vals(d - 1)
         IN  Leaves
             \cup {Tab([k \in {"k1"} |-> a]) : a \in V}
             \cup {Tab([k \in {"k2"} |-> b]) : b \in Leaves}
             \cup {Tab([k \in {"k1", "k2"} |-> IF k = "k1" THEN a ELSE b]) :
                        a \in V, b \in Leaves}
             \cup {Arr(<<a>>) : a \in V}
             \cup {Arr(<<a, b>>) : a \in V, b \in Leaves}

IsCollection(x) == x.t \in {"tab", "arr"}
\* len(value)
Size(x) == IF x.t = "tab" THEN Cardinality(DOMAIN x.f) ELSE Len(x.a)
\* mapping_prune._is_empty
IsEmpty(x) == x.t = "none" \/ (IsCollection(x) /\ Size(x) = 0)

\* mapping_prune._prune: the value after the call and the flag it returns
RECURSIVE PruneVal(_)
PruneVal(x) ==
    IF x.t = "tab"
    THEN LET keep == {k \in DOMAIN x.f : ~IsEmpty(x.f[k])}
             sub  == [k \in keep |-> PruneVal(x.f[k])]
         IN  [v   |-> Tab([k \in keep |-> sub[k].v]),
              mod |-> keep # DOMAIN x.f \/ \E k \in keep : sub[k].mod]
    ELSE IF x.t = "arr"
    THEN LET sub == [i \in DOMAIN x.a |->
                        IF IsEmpty(x.a[i]) THEN [v |-> Removed, mod |-> TRUE]
                        ELSE PruneVal(x.a[i])]
         IN  [v   |-> Arr(SelectSeq([i \in DOMAIN x.a |-> sub[i].v],
                                    LAMBDA e : e.t # "removed")),
              mod |-> \E i \in DOMAIN x.a : sub[i].mod]
    ELSE [v |-> x, mod |-> FALSE]

PruneDocs == {x \in Vals(MaxDepth) : x.t = "tab"} \cup {None}

\* mapping_prune(data): data is pruned in place
MappingPrune ==
    /\ call.fn = "mapping_prune" /\ Len(ret) < MaxCalls
    /\ LET r == PruneVal(call.data)
       IN  /\ call' = [call EXCEPT !.data = r.v]
           /\ ret' = Append(ret, [data |-> r.v, mod |-> r.mod])
    /\ LibFrame

InitPrune ==
    /\ Parked
    /\ \E d \in PruneDocs : call = [fn |-> "mapping_prune", arg |-> d, data |-> d]
    /\ ret = << >>

NextPrune ==
    \/ MappingPrune

SpecPrune == InitPrune /\ [][NextPrune]_vars

\* no mapping or list below x is empty
Children(x) ==
    IF x.t = "tab" THEN {x.f[k] : k \in DOMAIN x.f}
    ELSE IF x.t = "arr" THEN {x.a[i] : i \in DOMAIN x.a}
    ELSE {}

RECURSIVE NoEmptyBelow(_)
NoEmptyBelow(x) ==
    \A c \in Children(x) : ~(IsCollection(c) /\ Size(c) = 0) /\ NoEmptyBelow(c)

\* C17: after one call of prune no table or array at any depth of the
\* document is empty, unless the whole document was empty to start.
C17_NoEmptyCollectionAfterPrune ==
    (call.fn = "mapping_prune" /\ Len(ret) >= 1 /\ ~IsEmpty(call.arg))
        => NoEmptyBelow(ret[1].data)

\* C18: pruning a pruned document changes nothing and reports no removal.
C18_PruneIdempotent ==
    (call.fn = "mapping_prune" /\ Len(ret) >= 2)
        => (ret[2].data = ret[1].data /\ ~ret[2].mod)

(***************************************************************************)
(* utils.clean_text and projects.PyProject._clean_yaml. A text is a        *)
(* sequence of characters; "a" and "b" stand for the printable ones.       *)
(***************************************************************************)
Chars == {"\n", " ", "a", "b"}
White == {" ", "\n"}
Texts == UNION {[1..n -> Chars] : n \in 0..MaxLen}
\* the value None where a text is expected
NoneText == <<"None">>

\* str.lstrip, str.rstrip, str.strip
LStrip(s) == SubSeq(s, SkipToks(s, 1, White), Len(s))
RStrip(s) ==
    LET j == CHOOSE j \in 0..Len(s) :
                /\ (j = 0 \/ s[j] \notin White)
                /\ \A k \in (j + 1)..Len(s) : s[k] \in White
    IN  SubSeq(s, 1, j)
Strip(s) == LStrip(RStrip(s))

\* str.splitlines
RECURSIVE SplitLines(_)
SplitLines(s) ==
    IF s = << >> THEN << >>
    ELSE LET i == SkipToks(s, 1, Chars \ {"\n"})
         IN  <<SubSeq(s, 1, i - 1)>> \o SplitLines(SubSeq(s, i + 1, Len(s)))

\* "\n".join(lines)
RECURSIVE Join(_)
Join(lines) ==
    IF lines = << >> THEN << >>
    ELSE IF Len(lines) = 1 THEN lines[1]
    ELSE lines[1] \o <<"\n">> \o Join(Tail(lines))

\* clean_text, the loop of lines 163-168
RECURSIVE CleanTextLoop(_, _)
CleanTextLoop(lines, out) ==
    IF lines = << >> THEN out
    ELSE LET line == RStrip(Head(lines))
         IN  CleanTextLoop(Tail(lines),
                IF line # << >> \/ (out # << >> /\ out[Len(out)] # << >>)
                THEN Append(out, line) ELSE out)

\* utils.clean_text
CleanText(text) ==
    LET t == Strip(text)
    IN  IF t = << >> THEN << >>
        ELSE LET j == RStrip(Join(CleanTextLoop(SplitLines(t), << >>)))
             IN  IF j # << >> THEN j \o <<"\n">> ELSE << >>

\* PyProject._clean_yaml, the loop of lines 297-302
RECURSIVE CleanYamlLoop(_, _, _)
CleanYamlLoop(lines, out, prev) ==
    IF lines = << >> THEN out
    ELSE LET line  == Head(lines)
             blank == Strip(line) = << >>
         IN  IF blank /\ prev
             THEN CleanYamlLoop(Tail(lines), out, prev)
             ELSE CleanYamlLoop(Tail(lines), Append(out, line), blank)

\* PyProject._clean_yaml
CleanYaml(yaml) ==
    LET y == Strip(yaml)
    IN  IF y = << >> THEN NoneText
        ELSE LET j == Strip(Join(CleanYamlLoop(SplitLines(y), << >>, FALSE)))
             IN  IF j # << >> THEN j \o <<"\n">> ELSE << >>

CleanTextCall ==
    /\ call.fn = "clean_text" /\ ret = << >>
    /\ ret' = <<CleanText(call.arg)>>
    /\ UNCHANGED call /\ LibFrame

CleanYamlCall ==
    /\ call.fn = "_clean_yaml" /\ ret = << >>
    /\ ret' = <<CleanYaml(call.arg)>>
    /\ UNCHANGED call /\ LibFrame

InitText ==
    /\ Parked
    /\ \E f \in {"clean_text", "_clean_yaml"}, t \in Texts : call = [fn |-> f, arg |-> t]
    /\ ret = << >>

NextText ==
    \/ CleanTextCall
    \/ CleanYamlCall

SpecText == InitText /\ [][NextText]_vars

\* the lines of a text that are not blank
ContentLines(text) == SelectSeq(SplitLines(text), LAMBDA l : Strip(l) # << >>)

\* the same lines without the white space around them
StrippedLines(text) == [i \in DOMAIN ContentLines(text) |-> Strip(ContentLines(text)[i])]

\* the result of a cleaning call that returned a text
Cleaned == call.fn \in {"clean_text", "_clean_yaml"} /\ ret # << >> /\ ret[1] # NoneText

\* no two consecutive blank lines; a text that is not empty ends with exactly
\* one newline
Normalized(r) ==
    /\ \A i \in 1..(Len(SplitLines(r)) - 1) :
          ~(Strip(SplitLines(r)[i]) = << >> /\ Strip(SplitLines(r)[i + 1]) = << >>)
    /\ r # << >> => /\ Len(r) >= 2
                    /\ r[Len(r)] = "\n"
                    /\ r[Len(r) - 1] \notin White

\* C20: the text serialization produces never has two consecutive blank
\* lines and, when not empty, ends with exactly one newline; every non-blank
\* line of the input is kept, in order.
C20_CleanedText ==
    Cleaned => /\ Normalized(ret[1])
               /\ ContentLines(ret[1]) = ContentLines(call.arg)

\* C20, weaker: the same, with the lines compared without the white space
\* around them.
C20_CleanedTextUpToWhiteSpace ==
    Cleaned => /\ Normalized(ret[1])
               /\ StrippedLines(ret[1]) = StrippedLines(call.arg)

\* a text with two blank lines between two content lines was cleaned
C20_Witness ==
    /\ call.fn = "_clean_yaml"
    /\ call.arg = <<"a", "\n", "\n", "\n", "b">>
    /\ ret = << <<"a", "\n", "\n", "b", "\n">> >>

(***************************************************************************)
(* projects.PyProject.persist. The file system is the manifest's file:     *)
(* whether its parent directory exists, and its text (None: no file).      *)
(***************************************************************************)
NoFile(dir) == [dir |-> dir, text |-> NoneText]
File(text) == [dir |-> TRUE, text |-> text]

\* the files a document whose tomlkit.dumps text is t may meet on disk
Disks(t) ==
    {NoFile(FALSE), NoFile(TRUE), File(t), File(<< >>), File(<<"b", "\n">>)}
        \cup (IF CleanYaml(t) # NoneText THEN {File(CleanYaml(t))} ELSE {})

\* PyProject.persist(force) of a document with a source file: the outcome
\* and the file afterwards. fp.write(None) raises TypeError after open("w")
\* created or truncated the file.
PersistResult(dumps, force, file) ==
    LET text == CleanYaml(dumps)
    IN  IF ~force /\ text = file.text
        THEN [result |-> "unchanged", file |-> file]
        ELSE IF text = NoneText
        THEN [result |-> "TypeError", file |-> File(<< >>)]
        ELSE [result |-> "written", file |-> File(text)]

PersistCall ==
    /\ call.fn = "persist" /\ ret = << >>
    /\ ret' = <<PersistResult(call.arg, call.force, call.file)>>
    /\ UNCHANGED call /\ LibFrame

InitPersist ==
    /\ Parked
    /\ \E t \in Texts, force \in BOOLEAN :
          \E file \in Disks(t) :
             call = [fn |-> "persist", arg |-> t, force |-> force, file |-> file]
    /\ ret = << >>

NextPersist ==
    \/ PersistCall

SpecPersist == InitPersist /\ [][NextPersist]_vars

Persisted == call.fn = "persist" /\ ret # << >>

\* the serialized document, read as the text of a file: None is the text of
\* no document, and never the text of a file
SameAsDisk == CleanYaml(call.arg) # NoneText /\ CleanYaml(call.arg) = call.file.text

\* C19: persist with force = false writes nothing and returns "unchanged"
\* when the serialized document equals the text on disk; in every other
\* case (the text differs, the file is absent, or force = true) it creates
\* the missing parent directories, writes the file and returns "written".
C19_PersistUnchangedOrWritten ==
    Persisted =>
        IF ~call.force /\ SameAsDisk
        THEN ret[1] = [result |-> "unchanged", file |-> call.file]
        ELSE /\ ret[1].result = "written"
             /\ ret[1].file.dir
             /\ ret[1].file.text = CleanYaml(call.arg)

\* C19, weaker: the same for the documents whose serialization is a text.
C19_PersistOfNonEmptyDocument ==
    (Persisted /\ CleanYaml(call.arg) # NoneText) =>
        IF ~call.force /\ SameAsDisk
        THEN ret[1] = [result |-> "unchanged", file |-> call.file]
        ELSE /\ ret[1].result = "written"
             /\ ret[1].file.dir
             /\ ret[1].file.text = CleanYaml(call.arg)

(***************************************************************************)
(* Loading a manifest: projects.PyProject.reload, pyproject.PyProject.data *)
(* and projects.Project.__init__, each given the path of a pyproject.toml. *)
(* A manifest file is its parsed content (a tagged mapping) and whether    *)
(* its text is TOML at all.                                                *)
(***************************************************************************)
EmptyDoc == Tab(<< >>)
Docs == {d \in Vals(MaxDepth) : d.t = "tab"}

ManifestAbsent(dir) == [exists |-> FALSE, dir |-> dir, doc |-> EmptyDoc, toml |-> FALSE]
ManifestFile(doc, toml) == [exists |-> TRUE, dir |-> TRUE, doc |-> doc, toml |-> toml]
Manifests ==
    {ManifestAbsent(dir) : dir \in BOOLEAN}
        \cup {ManifestFile(doc, toml) : doc \in Docs, toml \in BOOLEAN}

Loaded(doc, file) == [result |-> "loaded", doc |-> doc, dir |-> file.dir]
Raised(error, dir) == [result |-> error, doc |-> EmptyDoc, dir |-> dir]

\* projects.PyProject(source=path): reload loads the file when it is a
\* file, and takes dict() otherwise
Reload(file) ==
    IF file.exists
    THEN IF file.toml THEN Loaded(file.doc, file) ELSE Raised("ParseError", file.dir)
    ELSE Loaded(EmptyDoc, file)

\* pyproject.PyProject(path).data: _file_path creates the parent directory,
\* data opens the file
Data(file) ==
    IF file.exists
    THEN IF file.toml THEN Loaded(file.doc, file) ELSE Raised("ParseError", TRUE)
    ELSE Raised("FileNotFoundError", TRUE)

\* projects.Project(path): dir(path) finds no pyproject.toml, or read_text
\* and tomlkit.parse fail
ProjectInit(file) ==
    IF file.exists /\ file.toml THEN Loaded(file.doc, file)
    ELSE Raised("ValueError", file.dir)

ReloadCall ==
    /\ call.fn = "PyProject.reload" /\ ret = << >>
    /\ ret' = <<Reload(call.file)>>
    /\ UNCHANGED call /\ LibFrame

DataCall ==
    /\ call.fn = "PyProject.data" /\ ret = << >>
    /\ ret' = <<Data(call.file)>>
    /\ UNCHANGED call /\ LibFrame

ProjectInitCall ==
    /\ call.fn = "Project.__init__" /\ ret = << >>
    /\ ret' = <<ProjectInit(call.file)>>
    /\ UNCHANGED call /\ LibFrame

Loaders == {"PyProject.reload", "PyProject.data", "Project.__init__"}

InitLoad ==
    /\ Parked
    /\ \E fn \in Loaders, file \in Manifests : call = [fn |-> fn, file |-> file]
    /\ ret = << >>

NextLoad ==
    \/ ReloadCall
    \/ DataCall
    \/ ProjectInitCall

SpecLoad == InitLoad /\ [][NextLoad]_vars

LoadedAbsent == call.fn \in Loaders /\ ret # << >> /\ ~call.file.exists

\* C21: loading a manifest whose file does not exist yields an empty
\* document rather than an error.
C21_AbsentFileLoadsEmpty ==
    LoadedAbsent => ret[1].result = "loaded" /\ ret[1].doc = EmptyDoc

\* C21, weaker: the same for projects.PyProject.reload alone.
C21_ReloadOfAbsentFile ==
    (LoadedAbsent /\ call.fn = "PyProject.reload")
        => ret[1].result = "loaded" /\ ret[1].doc = EmptyDoc

(***************************************************************************)
(* utils.mapping_get and utils.mapping_set over tagged values. Whether the *)
(* value passed is the very object stored at the path (the `is` of line    *)
(* 233) is an input of the call: it can only be for equal values, and None *)
(* is always the one None.                                                 *)
(***************************************************************************)
Keys == {"k1", "k2"}
Paths == UNION {[1..n -> Keys] : n \in 0..MaxDepth}
SetValues == Leaves \cup {Tab([k \in {"k2"} |-> Scalar]), Arr(<<Scalar>>)}

\* Mapping.get(key, None)
Lookup(cur, key) == IF key \in DOMAIN cur.f THEN cur.f[key] ELSE None
\* current_data[key] = value
Assign(cur, key, value) ==
    Tab([k \in DOMAIN cur.f \cup {key} |-> IF k = key THEN value ELSE cur.f[k]])

\* mapping_get(data, *path), default None
RECURSIVE GetVal(_, _)
GetVal(cur, path) ==
    IF path = << >> THEN None
    ELSE LET next == Lookup(cur, Head(path))
         IN  IF Len(path) = 1 THEN next
             ELSE IF next.t = "tab" THEN GetVal(next, Tail(path))
             ELSE None
MappingGet(data, path) ==
    IF data.t = "tab" /\ Size(data) > 0 THEN GetVal(data, path) ELSE None

\* next_value is value
Is(next, value, same) ==
    IF value.t = "none" THEN next.t = "none" ELSE next = value /\ same

\* mapping_set(data, *path, value=value): the mapping afterwards and the
\* flag returned
RECURSIVE SetVal(_, _, _, _)
SetVal(cur, path, value, same) ==
    IF path = << >> THEN [v |-> cur, mod |-> FALSE]
    ELSE LET key  == Head(path)
             next == Lookup(cur, key)
         IN  IF Len(path) = 1
             THEN IF Is(next, value, same)
                  THEN [v |-> cur, mod |-> FALSE]
                  ELSE [v |-> Assign(cur, key, value), mod |-> TRUE]
             ELSE LET r == SetVal(IF next.t = "tab" THEN next ELSE EmptyDoc,
                                  Tail(path), value, same)
                  IN  [v |-> Assign(cur, key, r.v), mod |-> r.mod]

\* mapping_set, then mapping_get of the same path
MappingSet ==
    /\ call.fn = "mapping_set" /\ ret = << >>
    /\ LET r == SetVal(call.arg, call.path, call.value, call.same)
       IN  ret' = <<[data |-> r.v, mod |-> r.mod,
                     get |-> MappingGet(r.v, call.path)]>>
    /\ UNCHANGED call /\ LibFrame

InitSet ==
    /\ Parked
    /\ \E d \in Docs, path \in Paths, value \in SetValues, same \in BOOLEAN :
          /\ same => MappingGet(d, path) = value
          /\ call = [fn |-> "mapping_set", arg |-> d, path |-> path,
                     value |-> value, same |-> same]
    /\ ret = << >>

NextSet ==
    \/ MappingSet

SpecSet == InitSet /\ [][NextSet]_vars

WasSet == call.fn = "mapping_set" /\ ret # << >> /\ call.path # << >>

\* every proper prefix of the path leads to a table
TablesAlong(data, path) ==
    \A n \in 1..(Len(path) - 1) : MappingGet(data, SubSeq(path, 1, n)).t = "tab"

\* C22: set(path..., value) creates the missing intermediate tables, makes
\* a following get(path...) return value, and returns true exactly when
\* the stored value changed: it returns false and leaves the document
\* unchanged whenever the value already at the path equals the new value.
C22_SetReportsChange ==
    WasSet =>
        /\ TablesAlong(ret[1].data, call.path)
        /\ ret[1].get = call.value
        /\ ret[1].mod <=> MappingGet(call.arg, call.path) # call.value
        /\ MappingGet(call.arg, call.path) = call.value => ret[1].data = call.arg

\* C22, weaker: the tables are created and get returns the value; for a
\* value other than None the call returns false, leaving the document
\* unchanged, exactly when the very object passed is stored at the path.
C22_SetReportsIdentity ==
    WasSet =>
        /\ TablesAlong(ret[1].data, call.path)
        /\ ret[1].get = call.value
        /\ call.value.t # "none" =>
              /\ ret[1].mod <=> ~call.same
              /\ call.same => ret[1].data = call.arg

(***************************************************************************)
(* utils.mapping_merge over tagged values.                                 *)
(***************************************************************************)
MergeLeaves == {Scalar, Tab(<< >>), Arr(<< >>), Arr(<<Scalar>>)}

\* the values merged: key k1 holds any value one level down, key k2 a leaf
RECURSIVE MergeVals(_)
MergeVals(d) ==
    IF d = 0 THEN MergeLeaves
    ELSE LET V == MergeVals(d - 1)
         IN  MergeLeaves
             \cup {Tab([k \in {"k1"} |-> a]) : a \in V}
             \cup {Tab([k \in {"k2"} |-> b]) : b \in MergeLeaves}
             \cup {Tab([k \in {"k1", "k2"} |-> IF k = "k1" THEN a ELSE b]) :
                        a \in V, b \in MergeLeaves}

MergeDocs == {x \in MergeVals(MaxDepth) : x.t = "tab"}

\* mapping_merge(left, right): left afterwards and the flag returned
RECURSIVE MergeVal(_, _)
MergeVal(left, right) ==
    IF ~(right.t = "tab" /\ Size(right) > 0) THEN [v |-> left, mod |-> FALSE]
    ELSE LET sub == [k \in DOMAIN right.f |->
                        IF /\ k \in DOMAIN left.f
                           /\ right.f[k].t = "tab"
                           /\ left.f[k].t = "tab"
                        THEN MergeVal(left.f[k], right.f[k])
                        ELSE IF k \notin DOMAIN left.f \/ left.f[k] # right.f[k]
                        THEN [v |-> right.f[k], mod |-> TRUE]
                        ELSE [v |-> left.f[k], mod |-> FALSE]]
         IN  [v   |-> Tab([k \in DOMAIN left.f \cup DOMAIN right.f |->
                             IF k \in DOMAIN right.f THEN sub[k].v ELSE left.f[k]]),
              mod |-> \E k \in DOMAIN right.f : sub[k].mod]

\* variant that replaces every key of right wholesale, as dict.update does
MergeResultUpdate(left, right) ==
    IF ~(right.t = "tab" /\ Size(right) > 0) THEN [v |-> left, mod |-> FALSE]
    ELSE [v   |-> Tab([k \in DOMAIN left.f \cup DOMAIN right.f |->
                         IF k \in DOMAIN right.f THEN right.f[k] ELSE left.f[k]]),
          mod |-> \E k \in DOMAIN right.f :
                     k \notin DOMAIN left.f \/ left.f[k] # right.f[k]]

\* the outcome of one call of mapping_merge
MergeResult(left, right) == MergeVal(left, right)

MappingMerge ==
    /\ call.fn = "mapping_merge" /\ ret = << >>
    /\ LET r == MergeResult(call.arg, call.right)
       IN  ret' = <<[data |-> r.v, mod |-> r.mod]>>
    /\ UNCHANGED call /\ LibFrame

InitMerge ==
    /\ Parked
    /\ \E left \in MergeDocs, right \in MergeDocs \cup {None} :
          call = [fn |-> "mapping_merge", arg |-> left, right |-> right]
    /\ ret = << >>

NextMerge ==
    \/ MappingMerge

SpecMerge == InitMerge /\ [][NextMerge]_vars

\* the reference deep merge: for every key of from, two tables are merged
\* recursively and anything else is replaced by from's value; the keys of
\* into alone are kept
RECURSIVE RefMerge(_, _)
RefMerge(into, from) ==
    IF from.t # "tab" THEN into
    ELSE Tab([k \in DOMAIN into.f \cup DOMAIN from.f |->
                IF k \notin DOMAIN from.f THEN into.f[k]
                ELSE IF k \notin DOMAIN into.f THEN from.f[k]
                ELSE IF into.f[k].t = "tab" /\ from.f[k].t = "tab"
                     THEN RefMerge(into.f[k], from.f[k])
                ELSE from.f[k]])

RootPath == <<"w">>
MemberDirNames == <<"a", "b">>
ProjectNames == {"a", "b", "c"}
RootName == "r"
NoDir == <<"None">>

\* the name of the project in each member directory
Layouts == {n \in [{"a", "b"} -> ProjectNames] : n["a"] # n["b"]}

\* an identifier: a bare word or an absolute path
Identifiers ==
    {[abs |-> FALSE, segs |-> <<x>>] : x \in {"a", "b", "c", "zz"}}
        \cup {[abs |-> TRUE, segs |-> q] :
                 q \in {<<"w">>, <<"w", "a">>, <<"w", "b">>, <<"w", "c">>,
                        <<"w", "zz">>, <<"x", "zz">>}}
Cwds == {<<"w">>, <<"x">>}

\* the nodes of the workspace, the root first
Nodes(ws) ==
    <<[name |-> RootName, path |-> RootPath]>>
        \o [i \in 1..2 |-> [name |-> ws.names[MemberDirNames[i]],
                            path |-> <<"w", MemberDirNames[i]>>]]

IsDir(ws, path) ==
    \/ path \in {<< >>, <<"w">>, <<"x">>, <<"w", "a">>, <<"w", "b">>}
    \/ path = <<"w", "c">> /\ ws.other
HasManifest(ws, path) == path \in {<<"w">>, <<"w", "a">>, <<"w", "b">>}

\* source equals the node's name
NameIs(id, name) == ~id.abs /\ id.segs = <<name>>

\* workspaces.node(source): the first node whose name or path is source
NodeLookup(ws, id) ==
    LET ns  == Nodes(ws)
        hit == {i \in DOMAIN ns :
                   NameIs(id, ns[i].name) \/ (id.abs /\ id.segs = ns[i].path)}
    IN  IF hit = {} THEN NoDir
        ELSE ns[CHOOSE i \in hit : \A j \in hit : i <= j].path

\* dir._pyproject_file(pathlib.Path(input)): base is the working directory
\* of a relative path; parent stops at the path's own first segment
RECURSIVE PyprojectFile(_, _, _)
PyprojectFile(ws, base, segs) ==
    IF segs = << >> THEN NoDir
    ELSE IF IsDir(ws, base \o segs)
    THEN IF HasManifest(ws, base \o segs) THEN base \o segs ELSE NoDir
    ELSE PyprojectFile(ws, base, SubSeq(segs, 1, Len(segs) - 1))

\* projects.dir(input) of a string, match_member = True
DirLookup(ws, id, cwd) ==
    LET f  == PyprojectFile(ws, IF id.abs THEN << >> ELSE cwd, id.segs)
        ns == Nodes(ws)
        hit == {i \in DOMAIN ns : NameIs(id, ns[i].name)}
    IN  IF f # NoDir THEN f
        ELSE IF hit = {} THEN NoDir
        ELSE ns[CHOOSE i \in hit : \A j \in hit : i <= j].path

NodeCall ==
    /\ call.fn = "node" /\ ret = << >>
    /\ ret' = <<NodeLookup(call.ws, call.id)>>
    /\ UNCHANGED call /\ LibFrame

DirCall ==
    /\ call.fn = "dir" /\ ret = << >>
    /\ ret' = <<DirLookup(call.ws, call.id, call.cwd)>>
    /\ UNCHANGED call /\ LibFrame

InitLookup ==
    /\ Parked
    /\ \E fn \in {"node", "dir"}, names \in Layouts, other \in BOOLEAN,
          id \in Identifiers, cwd \in Cwds :
          call = [fn |-> fn, ws |-> [names |-> names, other |-> other],
                  id |-> id, cwd |-> cwd]
    /\ ret = << >>

NextLookup ==
    \/ NodeCall
    \/ DirCall

SpecLookup == InitLookup /\ [][NextLookup]_vars

LookedUp == call.fn \in {"node", "dir"} /\ ret # << >>

NodeSet == {Nodes(call.ws)[i] : i \in 1..3}

\* the directories of the projects whose name is the identifier
ByName == {n.path : n \in {m \in NodeSet : NameIs(call.id, m.name)}}

\* the path the identifier denotes, from the working directory
Denoted == IF call.id.abs THEN call.id.segs ELSE call.cwd \o call.id.segs
IsPrefix(q, path) == Len(q) <= Len(path) /\ SubSeq(path, 1, Len(q)) = q

\* the directory of the project matched by path: the nearest project whose
\* directory is the path denoted or holds it
ByPath ==
    LET in == {n.path : n \in {m \in NodeSet : IsPrefix(m.path, Denoted)}}
    IN  {q \in in : \A o \in in : Len(o) <= Len(q)}

\* C24: lookup by identifier returns the project whose name equals the
\* identifier in preference to a different project matched by path, and
\* not-found when no project matches by name or by path.
C24_NameBeforePath ==
    LookedUp =>
        /\ (ByName # {} /\ ByPath # {} /\ ByName # ByPath) => {ret[1]} = ByName
        /\ (ByName = {} /\ ByPath = {}) => ret[1] = NoDir

\* C24, weaker: the same for workspaces.node alone.
C24_NodeNameBeforePath ==
    (LookedUp /\ call.fn = "node") =>
        /\ (ByName # {} /\ ByPath # {} /\ ByName # ByPath) => {ret[1]} = ByName
        /\ (ByName = {} /\ ByPath = {}) => ret[1] = NoDir

(***************************************************************************)
(* The persist loop of workspace_sync.sync with the formatter as a         *)
(* collaborator: taplo exits non-zero for the manifests of call.fail.      *)
(* A manifest is loaded or not, and its formatted text differs from the    *)
(* file on disk or not.                                                    *)
(***************************************************************************)
PersistOrder == <<Root>> \o MemberSeq
ManifestStates == [loaded : BOOLEAN, differs : BOOLEAN]

\* pyproject.PyProject.persist(force_format): _format runs on the temporary
\* file of a loaded document, or on the destination when force_format is
\* set; subprocess.check_output raises on a non-zero exit
FormatRuns(m, force) == m.loaded \/ force
PersistOutcome(m, force, fails) ==
    IF FormatRuns(m, force) /\ fails THEN "CalledProcessError"
    ELSE IF FormatRuns(m, force) /\ m.differs THEN "written"
    ELSE "unchanged"

\* one iteration of the loop of lines 99-111; an exception ends the run
PersistLoopStep ==
    /\ call.fn = "persist_loop"
    /\ Len(ret) < Len(PersistOrder)
    /\ \A i \in DOMAIN ret : ret[i].result # "CalledProcessError"
    /\ LET p == PersistOrder[Len(ret) + 1]
       IN  ret' = Append(ret,
                    [p      |-> p,
                     result |-> PersistOutcome(call.docs[p], call.force,
                                               p \in call.fail),
                     warned |-> FALSE])
    /\ UNCHANGED call /\ LibFrame

InitFormat ==
    /\ Parked
    /\ \E docs \in [Projects -> ManifestStates], fail \in SUBSET Projects,
          force \in BOOLEAN :
          call = [fn |-> "persist_loop", docs |-> docs, fail |-> fail,
                  force |-> force]
    /\ ret = << >>

NextFormat ==
    \/ PersistLoopStep

SpecFormat == InitFormat /\ [][NextFormat]_vars

\* the run is over: every manifest was visited or an exception ended it
LoopOver ==
    /\ call.fn = "persist_loop"
    /\ \/ Len(ret) = Len(PersistOrder)
       \/ \E i \in DOMAIN ret : ret[i].result = "CalledProcessError"

\* the changed manifests for which the formatter exits non-zero
FormatFailed ==
    {p \in call.fail : call.docs[p].loaded /\ call.docs[p].differs}

\* C25: a non-zero exit of the formatter while persisting a changed
\* manifest is not fatal: the manifest is still written, the failure is
\* logged as a warning, and the run persists the remaining documents.
C25_FormatterFailureNotFatal ==
    (LoopOver /\ FormatFailed # {}) =>
        /\ Len(ret) = Len(PersistOrder)
        /\ \A i \in DOMAIN ret :
              ret[i].p \in FormatFailed => ret[i].result = "written" /\ ret[i].warned

\* C25, weaker: without a non-zero exit every manifest is visited, and the
\* changed ones are written.
C25_FormatterSucceeds ==
    (LoopOver /\ call.fail = {}) =>
        /\ Len(ret) = Len(PersistOrder)
        /\ \A i \in DOMAIN ret :
              (call.docs[ret[i].p].loaded /\ call.docs[ret[i].p].differs)
                  => ret[i].result = "written"

(***************************************************************************)
(* readme.update_cmd: the selected commands run in a ProcessPoolExecutor   *)
(* of `jobs` workers, the main process collects the results with           *)
(* as_completed and then replaces the blocks of the README. call holds the *)
(* state of the command, ret the writes of the README file.                *)
(***************************************************************************)
Cmds == 1..(MaxCalls + 1)

\* the commands a worker is running
Running == {c \in call.cmds : call.st[c] = "running"}
Finished == {c \in call.cmds : call.st[c] \in {"ok", "failed"}}

\* a free worker takes a submitted command
WorkerStart ==
    /\ call.fn = "update_cmd" /\ call.pc \in {"collect", "raising"}
    /\ Cardinality(Running) < call.jobs
    /\ \E c \in call.cmds :
          /\ call.st[c] = "pending"
          /\ call' = [call EXCEPT !.st[c] = "running"]
    /\ UNCHANGED ret /\ LibFrame

\* _run_cmd returns, or subprocess.run(check=True) raises in the worker
WorkerFinish ==
    /\ call.fn = "update_cmd"
    /\ \E c \in Running :
          call' = [call EXCEPT !.st[c] = IF c \in call.fail THEN "failed" ELSE "ok"]
    /\ UNCHANGED ret /\ LibFrame

\* as_completed yields a finished future; future.result() returns the
\* output, stored in output_map, or raises the worker's exception
Collect ==
    /\ call.fn = "update_cmd" /\ call.pc = "collect"
    /\ \E c \in Finished \ call.seen :
          call' = [call EXCEPT
                     !.seen = @ \cup {c},
                     !.got  = IF call.st[c] = "ok" THEN @ \cup {c} ELSE @,
                     !.pc   = IF call.st[c] = "ok" THEN "collect" ELSE "raising"]
    /\ UNCHANGED ret /\ LibFrame

\* leaving the with block on an exception: shutdown(wait=True) waits for
\* the workers, then the exception leaves update_cmd
Shutdown ==
    /\ call.fn = "update_cmd" /\ call.pc = "raising"
    /\ Finished = call.cmds
    /\ call' = [call EXCEPT !.pc = "raised"]
    /\ UNCHANGED ret /\ LibFrame

\* variant that replaces the blocks while results are still arriving
ReadyToWriteEarly(c) == c.pc = "collect" /\ c.got # {}

\* as_completed is exhausted and the with block is left
ReadyToWrite(c) == c.pc = "collect" /\ c.seen = c.cmds

\* _CMD_BLOCK_RE.sub and readme.write_text, lines 187-207
WriteReadme ==
    /\ call.fn = "update_cmd" /\ ReadyToWrite(call)
    /\ call' = [call EXCEPT !.pc = "done"]
    /\ ret' = IF call.stale /\ call.write
              THEN Append(ret, [blocks |-> call.got]) ELSE ret
    /\ LibFrame

InitReadme ==
    /\ Parked
    /\ \E cmds \in SUBSET Cmds \ {{}}, fail \in SUBSET Cmds, jobs \in 1..MaxCalls,
          write \in BOOLEAN, stale \in BOOLEAN :
          /\ fail \subseteq cmds
          /\ call = [fn |-> "update_cmd", cmds |-> cmds, fail |-> fail,
                     jobs |-> jobs, write |-> write, stale |-> stale,
                     st |-> [c \in cmds |-> "pending"], seen |-> {}, got |-> {},
                     pc |-> "collect"]
    /\ ret = << >>

NextReadme ==
    \/ WorkerStart
    \/ WorkerFinish
    \/ Collect
    \/ Shutdown
    \/ WriteReadme

SpecReadme == InitReadme /\ [][NextReadme]_vars

\* C26: the README is written at most once and only after the result of
\* every selected command has been collected; if any command fails, the
\* README is left unchanged.
C26_ReadmeWrittenOnceAfterJoin ==
    call.fn = "update_cmd" =>
        /\ Len(ret) <= 1
        /\ ret # << >> => /\ call.seen = call.cmds
                          /\ ret[1].blocks = call.cmds
                          /\ Running = {}
        /\ call.fail # {} => ret = << >>

\* three commands ran on two workers and the README was written
C26_Witness ==
    /\ call.fn = "update_cmd"
    /\ call.cmds = {1, 2, 3} /\ call.jobs = 2
    /\ call.pc = "done" /\ Len(ret) = 1

(***************************************************************************)
(* clean.build_artifacts and workspace.clean_build_artifacts: os.walk from *)
(* the workspace root /w over a tree of directories. The scripts project   *)
(* is the member directory /w/s, or lives outside the workspace.           *)
(***************************************************************************)
DirNames == {".venv", "__pycache__", "p.egg-info", "s", "m"}
ScriptsPath == <<"w", "s">>
TreeDepth == MaxDepth + 1

\* the directories that may exist below the root
TreePaths == UNION {{RootPath \o q : q \in [1..n -> DirNames]} : n \in 1..TreeDepth}
Prefixes(path) == {SubSeq(path, 1, n) : n \in 1..Len(path)}
\* the trees: the root and the directories leading to at most two paths
Trees == {UNION {Prefixes(q) : q \in qs} \cup {RootPath} :
             qs \in {{x, y} : x \in TreePaths, y \in TreePaths} \cup {{}}}

PathName(path) == path[Len(path)]
Parent(path) == SubSeq(path, 1, Len(path) - 1)
\* pathlib.Path.parents
Parents(path) == {SubSeq(path, 1, n) : n \in 1..(Len(path) - 1)}
ChildDirs(tree, path) == {q \in tree : Len(q) = Len(path) + 1 /\ Parent(q) = path}

\* the excludes of clean.build_artifacts (lines 41-44)
ExcludedC(path, scripts) == PathName(path) = ".venv" /\ Parent(path) = RootPath
\* the excludes of workspace.clean_build_artifacts (lines 318-321)
ExcludedWs(path, scripts) ==
    \/ PathName(path) = ".venv" /\ Parent(path) = RootPath
    \/ scripts \in Parents(path)
Excluded(fn, path, scripts) ==
    IF fn = "build_artifacts" THEN ExcludedC(path, scripts)
    ELSE ExcludedWs(path, scripts)

\* the matchers that name a directory of this tree
Matched(path) ==
    \/ PathName(path) = ".venv"
    \/ PathName(path) = "__pycache__" /\ Parent(path) # RootPath \o <<".venv">>
    \/ PathName(path) = "p.egg-info"

\* os.walk of path, top down: the directories given to shutil.rmtree
RECURSIVE Walk(_, _, _, _)
Walk(fn, tree, scripts, path) ==
    IF Excluded(fn, path, scripts) THEN {}
    ELSE IF Matched(path) THEN {path}
    ELSE UNION {Walk(fn, tree, scripts, q) : q \in ChildDirs(tree, path)}

\* the tree after shutil.rmtree of each of them
AfterClean(tree, removed) == {q \in tree : Prefixes(q) \cap removed = {}}

CleanCall ==
    /\ call.fn \in {"build_artifacts", "clean_build_artifacts"} /\ ret = << >>
    /\ ret' = <<AfterClean(call.tree,
                           Walk(call.fn, call.tree, call.scripts, RootPath))>>
    /\ UNCHANGED call /\ LibFrame

InitClean ==
    /\ Parked
    /\ \E fn \in {"build_artifacts", "clean_build_artifacts"}, tree \in Trees,
          scripts \in {ScriptsPath, <<"site">>} :
          call = [fn |-> fn, tree |-> tree, scripts |-> scripts]
    /\ ret = << >>

NextClean ==
    \/ CleanCall

SpecClean == InitClean /\ [][NextClean]_vars

WasCleaned == call.fn \in {"build_artifacts", "clean_build_artifacts"} /\ ret # << >>

\* the root's .venv, what is inside it, and what is inside the scripts
\* project directory
Protected(q) == IsPrefix(RootPath \o <<".venv">>, q) \/ call.scripts \in Parents(q)
Artifact(q) == q # RootPath /\ PathName(q) \in {".venv", "__pycache__", "p.egg-info"}

\* C27: the clean never deletes the root's .venv, anything inside it, or
\* anything inside the scripts project directory; outside those it deletes
\* every .venv, __pycache__ and *.egg-info directory.
C27_CleanProtectsAndDeletes ==
    WasCleaned =>
        \A q \in call.tree :
            /\ Protected(q) => q \in ret[1]
            /\ (Artifact(q) /\ ~Protected(q)) => q \notin ret[1]

\* C27, weaker: the same for workspace.clean_build_artifacts alone.
C27_WorkspaceCleanProtectsAndDeletes ==
    (WasCleaned /\ call.fn = "clean_build_artifacts") =>
        \A q \in call.tree :
            /\ Protected(q) => q \in ret[1]
            /\ (Artifact(q) /\ ~Protected(q)) => q \notin ret[1]

(***************************************************************************)
(* Creating a member project: workspace_create.create, create.member and   *)
(* workspace.create_member. The workspace root is /w and the new project   *)
(* is named n. A path argument is absolute or relative, a sequence of      *)
(* segments, ".." among them.                                              *)
(***************************************************************************)
NewName == "n"
PathLen == MaxDepth + 1
Segments == {"w", "packages", "..", "out"}
NoPath == [abs |-> FALSE, segs |-> <<"None">>]
PathArgs ==
    {[abs |-> a, segs |-> q] :
        a \in BOOLEAN, q \in UNION {[1..n -> Segments] : n \in 0..PathLen}}
        \cup {NoPath}
Creators == {"create", "member", "create_member"}

\* pathlib's base / path
Over(base, path) == IF path.abs THEN path.segs ELSE base \o path.segs

\* Path.resolve(): the ".." segments are followed
RECURSIVE Resolve(_, _)
Resolve(segs, acc) ==
    IF segs = << >> THEN acc
    ELSE IF Head(segs) = ".."
    THEN Resolve(Tail(segs), IF acc = << >> THEN acc ELSE SubSeq(acc, 1, Len(acc) - 1))
    ELSE Resolve(Tail(segs), Append(acc, Head(segs)))

\* PurePath.is_relative_to compares the segments as they are written
IsRelativeTo(path, other) ==
    Len(other) <= Len(path) /\ SubSeq(path, 1, Len(other)) = other

\* the parent directory the function accepts, or NoDir when it raises:
\* workspace_create.create lines 57-60; create.member lines 71-77 and
\* workspace.create_member lines 265-270
ParentDir(fn, path, cwd) ==
    IF fn = "create"
    THEN LET q == Over(RootPath, IF path = NoPath
                                 THEN [abs |-> FALSE, segs |-> <<"packages">>]
                                 ELSE path)
         IN  IF IsRelativeTo(q, RootPath) THEN q ELSE NoDir
    ELSE IF path = NoPath THEN RootPath
    ELSE LET q == Resolve(Over(cwd, path), << >>)
         IN  IF IsRelativeTo(q, RootPath) THEN q ELSE NoDir

\* the call: ValueError before anything is made, or the project directory
\* made, where the file system puts it
CreateResult(fn, path, cwd, taken) ==
    LET parent == ParentDir(fn, path, cwd)
        target == Resolve(parent \o <<NewName>>, << >>)
    IN  IF parent = NoDir THEN [result |-> "ValueError", made |-> NoDir]
        ELSE IF target \in taken THEN [result |-> "ValueError", made |-> NoDir]
        ELSE [result |-> "created", made |-> target]

CreateCall ==
    /\ call.fn \in Creators /\ ret = << >>
    /\ ret' = <<CreateResult(call.fn, call.path, call.cwd, call.taken)>>
    /\ UNCHANGED call /\ LibFrame

\* the directories that hold a pyproject.toml named n already
TakenDirs == {<<"w", "n">>, <<"w", "packages", "n">>, <<"out", "n">>}

InitCreate ==
    /\ Parked
    /\ \E fn \in Creators, path \in PathArgs, cwd \in {<<"w">>, <<"out">>},
          taken \in SUBSET TakenDirs :
          call = [fn |-> fn, path |-> path, cwd |-> cwd, taken |-> taken]
    /\ ret = << >>

NextCreate ==
    \/ CreateCall

SpecCreate == InitCreate /\ [][NextCreate]_vars

Created == call.fn \in Creators /\ ret # << >>

\* the directory the path argument leads to: from the root in
\* workspace_create.create, from the working directory in the other two
LeadsTo ==
    IF call.path = NoPath
    THEN IF call.fn = "create" THEN RootPath \o <<"packages">> ELSE RootPath
    ELSE Resolve(Over(IF call.fn = "create" THEN RootPath ELSE call.cwd, call.path),
                 << >>)

\* C28: a member project is only created inside the workspace root and
\* never over an existing project: a parent path that leads outside the
\* root, or a target whose pyproject.toml exists, is rejected with an error
\* before any directory or file is created.
C28_CreatedInsideRootOnly ==
    Created =>
        /\ ret[1].result = "created" =>
              /\ IsPrefix(RootPath, ret[1].made)
              /\ ret[1].made \notin call.taken
        /\ (~IsPrefix(RootPath, LeadsTo) \/ LeadsTo \o <<NewName>> \in call.taken)
              => ret[1] = [result |-> "ValueError", made |-> NoDir]

\* C28, weaker: the same for create.member and workspace.create_member.
C28_ResolvedCreatedInsideRootOnly ==
    (Created /\ call.fn # "create") =>
        /\ ret[1].result = "created" =>
              /\ IsPrefix(RootPath, ret[1].made)
              /\ ret[1].made \notin call.taken
        /\ (~IsPrefix(RootPath, LeadsTo) \/ LeadsTo \o <<NewName>> \in call.taken)
              => ret[1] = [result |-> "ValueError", made |-> NoDir]

(***************************************************************************)
(* Claims about PyProject.table (specification SpecDeps)                   *)
(***************************************************************************)
\* the entries dependency rewriting of workspace_sync.py adds for project p
AddedSources(p) == MemberDepsW(Before(p).deps)

\* C29: PyProject.table(keys..., create=True) returns a node whose table is
\* the table stored in the document at that key path, also when a value
\* that is not a table sat at one of the keys; hence every source-override
\* entry dependency rewriting adds through the node is part of the
\* document that is persisted.
C29_TableNodeIsInDocument ==
    (AfterDeps /\ impl = "W") => \A p \in Visited :
        /\ AddedSources(p) # {} => After(p).srcKind = "table"
        /\ \A n \in AddedSources(p) : HasWsTrue(After(p), n)

\* C29, weaker: the same when no value other than a table sits at
\* tool.uv.sources.
C29_TableNodeOfTableIsInDocument ==
    (AfterDeps /\ impl = "W") => \A p \in Visited :
        Before(p).srcKind # "inline" =>
            /\ AddedSources(p) # {} => After(p).srcKind = "table"
            /\ \A n \in AddedSources(p) : HasWsTrue(After(p), n)

(***************************************************************************)
(* Claims about the version after a whole run (specification Spec)         *)
(***************************************************************************)
\* every operation of a full run has run to its end
AfterFullRun == pc = "ops" /\ opIdx > Len(RunOps) /\ flags = AllOps

\* C30: after a full sync run with computed version V every target project
\* that has a [project] table has project.version = V, whatever the root's
\* build-system and tool.member-project sections contain.
C30_VersionSurvivesRun ==
    AfterFullRun => \A p \in Range(tg) : mem[p].project => mem[p].version = Computed

\* C30, weaker: the same when the root's tool.member-project section holds
\* no project.version, for the projects version assignment visits.
C30_VersionSurvivesWithoutOverride ==
    (AfterFullRun /\ mem[Root].mp.version = NoVersion)
        => \A p \in Range(tg) :
              (mem[p].project /\ (impl = "W" \/ p \in UpdateProjects(FALSE)))
                  => mem[p].version = Computed

====
